---- MODULE Spec2Model ----
(***************************************************************************)
(* Model of the hint-driven deserializer (type_serialize/obj/deserialize)  *)
(* and of the ndarray codec (class_serialize/driver/numpy).                *)
(*                                                                         *)
(* Both are synchronous, stateless procedures, so a behaviour of the model *)
(* is one call: an action picks the arguments of the call from a bounded   *)
(* set, runs the procedure as the source runs it, and records the          *)
(* arguments and the outcome (a value or a raised exception).              *)
(***************************************************************************)
EXTENDS Integers, Sequences, FiniteSets, TLC

VARIABLES op, arg, out

vars == <<op, arg, out>>

(***************************************************************************)
(* Bounds of the model.                                                    *)
(***************************************************************************)
MaxLen == 2      \* longest list / mapping source enumerated
MaxDim == 3      \* largest extent of an ndarray axis

(***************************************************************************)
(* Small helpers.                                                          *)
(***************************************************************************)
Range(s) == {s[i] : i \in 1..Len(s)}

SeqsUpTo(S, n) == UNION {[1..m -> S] : m \in 0..n}

RECURSIVE SumSeq(_)
SumSeq(s) == IF Len(s) = 0 THEN 0 ELSE Head(s) + SumSeq(Tail(s))

RECURSIVE ProdSeq(_)
ProdSeq(s) == IF Len(s) = 0 THEN 1 ELSE Head(s) * ProdSeq(Tail(s))

(***************************************************************************)
(* Runtime values.  Every value has the same four fields: its kind k, an   *)
(* integer payload i, a text payload s and a sequence of children e.       *)
(***************************************************************************)
Val(k, i, s, e) == [k |-> k, i |-> i, s |-> s, e |-> e]

VNone        == Val("none", 0, "", <<>>)
VInt(n)      == Val("int", n, "", <<>>)
VFloat(n)    == Val("float", n, "", <<>>)
VBool(b)     == Val("bool", IF b THEN 1 ELSE 0, "", <<>>)
VStr(s)      == Val("str", 0, s, <<>>)
VBytes(bs)   == Val("bytes", 0, "", bs)      \* bs: a sequence of VInt
VList(es)    == Val("list", 0, "", es)
VTuple(c, es) == Val("tuple", 0, c, es)
VPair(key, v) == Val("pair", 0, key, <<v>>)
VDict(ps)    == Val("dict", 0, "", ps)
VObj(c, ps)  == Val("obj", 0, c, ps)
VBuilt(c, how, v) == Val("built", 0, c, <<VStr(how), v>>)

IntsOf(es) == [j \in 1..Len(es) |-> es[j].i]
VInts(ns)  == [j \in 1..Len(ns) |-> VInt(ns[j])]

(***************************************************************************)
(* Outcome of a call: a returned value, or a raised exception with its     *)
(* class, its message and (for DeserializeError) its path of labels.       *)
(* rule names the branch of the dispatcher that produced the outcome.      *)
(***************************************************************************)
Ok(v, rule) ==
    [ok |-> TRUE, val |-> v, exc |-> "", msg |-> "", path |-> <<>>, rule |-> rule]
Raise(exc, msg, rule) ==
    [ok |-> FALSE, val |-> VNone, exc |-> exc, msg |-> msg, path |-> <<>>, rule |-> rule]

(***************************************************************************)
(* class_serialize/driver/numpy.py                                         *)
(*                                                                         *)
(* An ndarray is a view on a block of memory: element idx lives at byte    *)
(* offset + SUM idx[k] * strides[k] of mem.  Only one-byte dtypes are      *)
(* modelled, so an element is a byte and strides count bytes.              *)
(***************************************************************************)
DTypeRegistry == {"int8", "uint8"}

ItemSize(dtype) == 1

NdArray(shape, strides, offset, mem, dtype) ==
    [shape |-> shape, strides |-> strides, offset |-> offset, mem |-> mem,
     dtype |-> dtype]

Indices(shape) ==
    {idx \in [1..Len(shape) -> 0..MaxDim] : \A k \in 1..Len(shape) : idx[k] < shape[k]}

ByteOffset(strides, idx) == SumSeq([k \in 1..Len(idx) |-> idx[k] * strides[k]])

Element(a, idx) == a.mem[a.offset + ByteOffset(a.strides, idx) + 1]

\* Row-major strides of a shape.
CStrides(shape, dtype) ==
    [k \in 1..Len(shape) |-> ItemSize(dtype) * ProdSeq(SubSeq(shape, k + 1, Len(shape)))]

\* array.flags["C_CONTIGUOUS"]: axes of extent 1 are ignored, an empty array is
\* contiguous.
CContiguous(a) ==
    \/ \E k \in 1..Len(a.shape) : a.shape[k] = 0
    \/ \A k \in 1..Len(a.shape) :
          a.shape[k] = 1 \/ a.strides[k] = CStrides(a.shape, a.dtype)[k]

\* The idx of the n-th element (n from 0) in row-major order.
UnravelC(shape, n) ==
    [k \in 1..Len(shape) |->
        (n \div ProdSeq(SubSeq(shape, k + 1, Len(shape)))) % shape[k]]

\* array.tobytes(): a linearizing copy, elements in row-major order.
tobytes(a) ==
    [n \in 1..ProdSeq(a.shape) |-> Element(a, UnravelC(a.shape, n - 1))]

\* array.data.tobytes() of a C-contiguous array: the bytes the view covers.
data_tobytes(a) ==
    SubSeq(a.mem, a.offset + 1, a.offset + ProdSeq(a.shape) * ItemSize(a.dtype))

_ndarray_to_bytes_by_darwin(array) == tobytes(array)

_ndarray_to_bytes(array) ==
    IF CContiguous(array) THEN data_tobytes(array) ELSE tobytes(array)

ndarray_to_bytes(platform, array) ==
    IF platform = "darwin" THEN _ndarray_to_bytes_by_darwin(array)
    ELSE _ndarray_to_bytes(array)

NumpyProto(shape, dtype, buffer, strides) ==
    VTuple("NumpyProto", <<shape, dtype, buffer, strides>>)

numpy_serialize(platform, array) ==
    IF array.dtype \notin DTypeRegistry
    THEN Raise("ValueError",
               IF array.dtype # "" THEN "Unsupported dtype name" ELSE "Empty dtype name",
               "numpy_serialize")
    ELSE Ok(NumpyProto(VList(VInts(array.shape)), VStr(array.dtype),
                       VBytes(VInts(ndarray_to_bytes(platform, array))),
                       VList(VInts(array.strides))),
            "numpy_serialize")

IsIntSeq(v) == v.k \in {"list", "tuple"} /\ \A j \in 1..Len(v.e) : v.e[j].k = "int"

\* Lowest and one-past-highest byte a shape/strides pair addresses.
LowerOffset(shape, strides) ==
    IF \E k \in 1..Len(shape) : shape[k] = 0 THEN 0
    ELSE SumSeq([k \in 1..Len(shape) |->
                    IF strides[k] < 0 THEN (shape[k] - 1) * strides[k] ELSE 0])
UpperOffset(shape, strides, itemsize) ==
    IF \E k \in 1..Len(shape) : shape[k] = 0 THEN 0
    ELSE itemsize + SumSeq([k \in 1..Len(shape) |->
                    IF strides[k] > 0 THEN (shape[k] - 1) * strides[k] ELSE 0])

\* numpy.ndarray(shape=, dtype=, buffer=, strides=): a view on buffer, refused
\* when the strides address a byte outside of it.
NewNdArray(shape, dtype, buffer, strides) ==
    IF ~IsIntSeq(shape) \/ ~IsIntSeq(strides) \/ buffer.k # "bytes"
    THEN Raise("TypeError", "bad ndarray argument", "ndarray")
    ELSE LET sh == IntsOf(shape.e)
             st == IntsOf(strides.e)
         IN IF \E k \in 1..Len(sh) : sh[k] < 0
            THEN Raise("ValueError", "negative dimensions are not allowed", "ndarray")
            ELSE IF Len(st) # Len(sh)
            THEN Raise("ValueError", "strides, if given, must be the same length as shape",
                       "ndarray")
            ELSE IF \/ LowerOffset(sh, st) < 0
                    \/ UpperOffset(sh, st, ItemSize(dtype)) > Len(buffer.e)
            THEN Raise("ValueError", "strides is incompatible with shape and buffer",
                       "ndarray")
            ELSE [ok |-> TRUE, val |-> NdArray(sh, st, 0, IntsOf(buffer.e), dtype),
                  exc |-> "", msg |-> "", path |-> <<>>, rule |-> "ndarray"]

_numpy_deserialize(proto) ==
    LET shape == proto.e[1]
        dtype == proto.e[2]
        buffer == proto.e[3]
        strides == proto.e[4]
    IN IF dtype.k # "str" \/ dtype.s \notin DTypeRegistry
       THEN Raise("ValueError",
                  IF dtype.k # "str" \/ dtype.s # "" THEN "Unsupported dtype name"
                  ELSE "Empty dtype name",
                  "dtype")
       ELSE NewNdArray(shape, dtype.s, buffer, strides)

\* isinstance(x, Iterable) / isinstance(x, (bytes, bytearray, memoryview))
IsIterable(v) == v.k \in {"list", "tuple", "dict", "str", "bytes"}
IsBytesLike(v) == v.k = "bytes"

numpy_deserialize_dtype_first(proto) ==
    IF proto.k = "tuple" /\ proto.s = "NumpyProto" THEN _numpy_deserialize(proto)
    ELSE IF proto.k \in {"list", "tuple"}
    THEN IF Len(proto.e) # 4
         THEN Raise("ValueError", "There must be 4 elements", "validate")
         ELSE IF proto.e[2].k # "str"
         THEN Raise("ValueError", "The second element must be str", "validate")
         ELSE IF ~IsIterable(proto.e[1])
         THEN Raise("ValueError", "The first element must be Iterable", "validate")
         ELSE IF ~IsBytesLike(proto.e[3])
         THEN Raise("ValueError", "The third element must be bytes-like", "validate")
         ELSE IF ~IsIterable(proto.e[4])
         THEN Raise("ValueError", "The forth element must be Iterable", "validate")
         ELSE _numpy_deserialize(NumpyProto(proto.e[1], proto.e[2], proto.e[3], proto.e[4]))
    ELSE Raise("TypeError", "Unsupported proto type", "validate")

numpy_deserialize(proto) ==
    IF proto.k = "tuple" /\ proto.s = "NumpyProto" THEN _numpy_deserialize(proto)
    ELSE IF proto.k \in {"list", "tuple"}
    THEN IF Len(proto.e) # 4
         THEN Raise("ValueError", "There must be 4 elements", "validate")
         ELSE IF ~IsIterable(proto.e[1])
         THEN Raise("ValueError", "The first element must be Iterable", "validate")
         ELSE IF proto.e[2].k # "str"
         THEN Raise("ValueError", "The second element must be str", "validate")
         ELSE IF ~IsBytesLike(proto.e[3])
         THEN Raise("ValueError", "The third element must be bytes-like", "validate")
         ELSE IF ~IsIterable(proto.e[4])
         THEN Raise("ValueError", "The forth element must be Iterable", "validate")
         ELSE _numpy_deserialize(NumpyProto(proto.e[1], proto.e[2], proto.e[3], proto.e[4]))
    ELSE Raise("TypeError", "Unsupported proto type", "validate")

(***************************************************************************)
(* type_serialize/obj/deserialize.py: types and hints.                     *)
(*                                                                         *)
(* A type is a record: o its (origin) name, a the arguments of a           *)
(* parametrized generic, g whether it is a parametrized generic, f the     *)
(* declared field hints of a record class (field j is FieldNames[j]).      *)
(***************************************************************************)
Class(n)          == [o |-> n, a |-> <<>>, g |-> FALSE, f |-> <<>>]
DataClass(n, fs)  == [o |-> n, a |-> <<>>, g |-> FALSE, f |-> fs]
Generic(n, args)  == [o |-> n, a |-> args, g |-> TRUE, f |-> <<>>]

NoHint    == Class("None")        \* Python's None given as a hint or class
NoneType  == Class("NoneType")    \* type(None)
AnyT      == Class("Any")
UnionForm == Class("Union")
IntT      == Class("int")
StrT      == Class("str")
BoolT     == Class("bool")
ListT     == Class("list")
DictT     == Class("dict")
ObjectT   == Class("object")

OptionalOf(t) == Generic("Union", <<t, NoneType>>)
UnionOf(ts)   == Generic("Union", ts)
ListOf(t)     == Generic("list", <<t>>)
DictOf(k, v)  == Generic("dict", <<k, v>>)
TupleOf(t)    == Generic("tuple", <<t>>)

FieldNames == <<"a", "b">>

get_origin(h) == IF h.g THEN Class(h.o) ELSE NoHint
get_args(h)   == IF h.g THEN h.a ELSE <<>>

FIRST_INDEX_KEY_STR == "0"
DEFAULT_ROOT_KEY == "<root>"
NoneKey == "<None>"               \* the label None (key=None)

\* f"[{i}]" and str(i)
IndexLabel(i) == <<"[0]", "[1]", "[2]", "[3]", "[4]", "[5]", "[6]", "[7]">>[i + 1]
IntToStr(i)   == <<"0", "1", "2", "3", "4", "5", "6", "7">>[i + 1]

\* The families a class belongs to (issubclass / is_dataclass / is_protocol /
\* is_deserialize_cls / is_namedtuple_subclass answers).  Every class not
\* listed is a plain class.
Families(c) ==
    CASE c.o = "bytes"      -> {"bytes"}
      [] c.o = "bytearray"  -> {"bytearray"}
      [] c.o = "bool"       -> {"bool", "int"}
      [] c.o = "int"        -> {"int"}
      [] c.o = "float"      -> {"float"}
      [] c.o = "str"        -> {"str"}
      [] c.o = "ndarray"    -> {"ndarray"}
      [] c.o = "datetime"   -> {"datetime", "date"}
      [] c.o = "date"       -> {"date"}
      [] c.o = "time"       -> {"time"}
      [] c.o = "Color"      -> {"enum"}
      [] c.o = "IntColor"   -> {"int", "enum"}
      [] c.o = "StrColor"   -> {"str", "enum"}
      [] c.o = "tuple"      -> {"tuple"}
      [] c.o = "Point"      -> {"tuple", "namedtuple"}
      [] c.o = "SelfObj"    -> {"iface"}
      [] c.o = "SelfStr"    -> {"str", "iface"}
      [] c.o = "SelfTuple"  -> {"tuple", "iface"}
      [] c.o = "SelfMap"    -> {"iface", "mapping"}
      [] c.o = "SelfSeq"    -> {"iface", "sequence"}
      [] c.o = "SelfRec"    -> {"iface", "dataclass"}
      [] c.o = "dict"       -> {"mapping"}
      [] c.o = "MyMap"      -> {"mapping"}
      [] c.o = "MapSeq"     -> {"mapping", "sequence"}
      [] c.o = "list"       -> {"sequence"}
      [] c.o = "MySeq"      -> {"sequence"}
      [] c.o = "RecSeq"     -> {"sequence", "dataclass"}
      [] c.o = "RecMap"     -> {"mapping", "dataclass"}
      [] c.o = "Rec"        -> {"dataclass"}
      [] c.o = "RecProto"   -> {"dataclass", "protocol"}
      [] c.o = "Proto"      -> {"protocol"}
      [] OTHER              -> {}

issubclass_bool_as_int(c, fam) == fam # "bool" /\ fam \in Families(c)

issubclass(c, fam) == fam \in Families(c)

\* is_none(cls): cls is None or the type of None.
is_none(c) == c.o \in {"None", "NoneType"}

\* is_serializable_pod_cls(cls)
is_serializable_pod_cls(c) == c.o \in {"int", "float", "str", "bool"}

\* required_init_parameters(cls): the names __init__ requires.
required_init_parameters(c) ==
    IF c.o = "PlainReq" THEN <<"a">>
    ELSE IF "dataclass" \in Families(c) THEN SubSeq(FieldNames, 1, Len(c.f))
    ELSE <<>>

\* Instances of these classes have no __dict__: setattr on them raises.
NoInstanceDict(c) == c.o \in {"object", "dict", "list"}

\* type(value)
TypeOf(v) ==
    CASE v.k = "none"  -> NoneType
      [] v.k = "tuple" -> Class(v.s)
      [] v.k = "obj"   -> Class(v.s)
      [] v.k = "itemsrc" -> Class("ItemSrc")
      [] v.k = "keysrc"  -> Class("KeySrc")
      [] OTHER         -> Class(v.k)

(***************************************************************************)
(* Sources of a mapping target besides dict: an object whose items()       *)
(* yields pairs (a key may repeat), and an object with keys() but no       *)
(* items(), whose values are its attributes; the latter is a Mapping only  *)
(* when its class is registered as one (i = 1).                            *)
(***************************************************************************)
VItemSrc(ps)       == Val("itemsrc", 0, "", ps)
VKeySrc(ks, attrs, registered) ==
    Val("keysrc", IF registered THEN 1 ELSE 0, "", <<VList(ks), VDict(attrs)>>)

\* A mapping instance: its entries and the attributes set on the instance.
MapInst(c, entries, attrs) == Val("map", 0, c.o, <<VList(entries), VList(attrs)>>)
Entries(m) == m.e[1].e
Attrs(m)   == m.e[2].e
\* A sequence instance.
SeqInst(c, es) == Val("list", 0, IF c.o = "list" THEN "" ELSE c.o, es)

HasKey(ps, key) == \E j \in 1..Len(ps) : ps[j].s = key
Lookup(ps, key) == ps[CHOOSE j \in 1..Len(ps) : ps[j].s = key].e[1]
\* d[key] = v / setattr(o, key, v): overwrite in place, else append.
SetKey(ps, key, v) ==
    IF HasKey(ps, key)
    THEN [j \in 1..Len(ps) |-> IF ps[j].s = key THEN VPair(key, v) ELSE ps[j]]
    ELSE Append(ps, VPair(key, v))
\* d.setdefault(key, v)
SetDefault(ps, key, v) == IF HasKey(ps, key) THEN ps ELSE Append(ps, VPair(key, v))
Insert_front(es, pos, v) == <<v>> \o es

\* s.insert(pos, v)
Insert(es, pos, v) == SubSeq(es, 1, pos) \o <<v>> \o SubSeq(es, pos + 1, Len(es))

\* isinstance(data, Mapping)
IsMapping(v) == v.k \in {"dict", "itemsrc"} \/ (v.k = "keysrc" /\ v.i = 1)
\* compatible_iterable(data): iterable, but neither text nor bytes.
compatible_iterable(v) == v.k \in {"list", "tuple", "dict", "itemsrc"}
\* isinstance(data, Iterable), the typing one
IsIterableData(v) == v.k \in {"list", "tuple", "dict", "itemsrc", "str", "bytes"}

Chars(s) ==
    CASE s = ""      -> <<>>
      [] s = "x"     -> <<"x">>
      [] s = "1"     -> <<"1">>
      [] s = "0"     -> <<"0">>
      [] s = "no"    -> <<"n", "o">>
      [] s = "true"  -> <<"t", "r", "u", "e">>
      [] s = "false" -> <<"f", "a", "l", "s", "e">>
      [] OTHER       -> <<s>>

\* The elements enumerate(data) yields.
IterElems(v) ==
    CASE v.k \in {"list", "tuple", "bytes"} -> v.e
      [] v.k \in {"dict", "itemsrc"} -> [j \in 1..Len(v.e) |-> VStr(v.e[j].s)]
      [] v.k = "str" -> [j \in 1..Len(Chars(v.s)) |-> VStr(Chars(v.s)[j])]
      [] OTHER -> <<>>

\* get_public_attributes(data): the public name/value pairs of the source.
get_public_attributes(v) ==
    IF v.k \in {"obj", "dict", "itemsrc"} THEN v.e
    ELSE IF v.k = "keysrc" THEN v.e[2].e
    ELSE <<>>

\* get_type_hints(cls).get(key)
FieldHint(c, key) ==
    IF \E j \in 1..Len(c.f) : FieldNames[j] = key
    THEN c.f[CHOOSE j \in 1..Len(c.f) : FieldNames[j] = key]
    ELSE NoHint

(***************************************************************************)
(* The conversions of the scalar families.                                 *)
(***************************************************************************)
Truthy(v) ==
    CASE v.k = "none" -> FALSE
      [] v.k \in {"int", "float", "bool"} -> v.i # 0
      [] v.k = "str" -> v.s # ""
      [] v.k \in {"list", "tuple", "dict", "bytes", "itemsrc"} -> Len(v.e) > 0
      [] OTHER -> TRUE

\* string_to_boolean(text): a fixed vocabulary, anything else fails.
string_to_boolean(v) ==
    IF v.s \in {"true", "1", "yes"} THEN Ok(VBool(TRUE), "bool")
    ELSE IF v.s \in {"false", "0", "no"} THEN Ok(VBool(FALSE), "bool")
    ELSE Raise("ValueError", "invalid truth value", "bool")

conv_bool(data) ==
    IF data.k = "str" THEN string_to_boolean(data) ELSE Ok(VBool(Truthy(data)), "bool")

\* int(data)
conv_int(data) ==
    CASE data.k \in {"int", "bool", "float"} -> Ok(VInt(data.i), "int")
      [] data.k = "str" ->
            IF data.s = "0" THEN Ok(VInt(0), "int")
            ELSE IF data.s = "1" THEN Ok(VInt(1), "int")
            ELSE Raise("ValueError", "invalid literal for int()", "int")
      [] OTHER -> Raise("TypeError", "int() argument must be a string or a number", "int")

\* float(data)
conv_float(data) ==
    CASE data.k \in {"int", "bool", "float"} -> Ok(VFloat(data.i), "float")
      [] data.k = "str" ->
            IF data.s = "0" THEN Ok(VFloat(0), "float")
            ELSE IF data.s = "1" THEN Ok(VFloat(1), "float")
            ELSE Raise("ValueError", "could not convert string to float", "float")
      [] OTHER -> Raise("TypeError", "float() argument must be a string or a number",
                        "float")

\* str(data)
conv_str(data) ==
    CASE data.k = "str" -> Ok(data, "str")
      [] data.k \in {"int", "float"} /\ data.i \in 0..7 -> Ok(VStr(IntToStr(data.i)), "str")
      [] data.k = "bool" -> Ok(VStr(IF data.i = 1 THEN "True" ELSE "False"), "str")
      [] OTHER -> Ok(VStr("<repr>"), "str")

\* bytes(data) / bytearray(data)
conv_bytes(data, rule) ==
    CASE data.k = "bytes" -> Ok(Val("bytes", 0, IF rule = "bytes" THEN "" ELSE rule, data.e),
                                rule)
      [] data.k = "int" /\ data.i >= 0 ->
            Ok(Val("bytes", 0, IF rule = "bytes" THEN "" ELSE rule,
                   [j \in 1..data.i |-> VInt(0)]), rule)
      [] data.k \in {"list", "tuple"} /\ \A j \in 1..Len(data.e) : data.e[j].k = "int" ->
            Ok(Val("bytes", 0, IF rule = "bytes" THEN "" ELSE rule, data.e), rule)
      [] data.k = "str" -> Raise("TypeError", "string argument without an encoding", rule)
      [] OTHER -> Raise("TypeError", "cannot convert to bytes", rule)

\* datetime / date: float -> fromtimestamp, int -> fromordinal, str -> fromisoformat.
\* bool is an int (and is tested after float); no text of the model is ISO-8601.
conv_date(data, rule) ==
    CASE data.k = "float" -> Ok(VBuilt(rule, "fromtimestamp", data), rule)
      [] data.k \in {"int", "bool"} ->
            IF data.i >= 1 THEN Ok(VBuilt(rule, "fromordinal", data), rule)
            ELSE Raise("ValueError", "ordinal must be >= 1", rule)
      [] data.k = "str" -> Raise("ValueError", "Invalid isoformat string", rule)
      [] OTHER -> Raise("DeserializeError", "cannot be converted to " \o rule, rule)

conv_time(data) ==
    IF data.k = "str" THEN Raise("ValueError", "Invalid isoformat string", "time")
    ELSE Raise("DeserializeError", "cannot be converted to time", "time")

\* Enum: cls(data) is the member whose value equals data.
EnumValues == {1, 2}
conv_enum(data, cls) ==
    IF data.k \in {"int", "bool"} /\ data.i \in EnumValues
    THEN Ok(VBuilt(cls.o, "member", VInt(data.i)), "enum")
    ELSE Raise("ValueError", "is not a valid member", "enum")

\* tuple: a named tuple (two fields) spreads data; a plain tuple is built from
\* an iterable, or from [data].
conv_tuple(data, cls) ==
    IF issubclass(cls, "namedtuple")
    THEN IF IsIterableData(data) /\ Len(IterElems(data)) = 2
         THEN Ok(VTuple(cls.o, IterElems(data)), "tuple")
         ELSE Raise("TypeError", "wrong number of positional arguments", "tuple")
    ELSE IF IsIterableData(data) THEN Ok(VTuple(cls.o, IterElems(data)), "tuple")
    ELSE Ok(VTuple(cls.o, <<data>>), "tuple")

\* type_origin(data) of a serializable POD class.
PodConv(data, c) ==
    IF c.o = "bool" THEN Ok(VBool(Truthy(data)), "pod")
    ELSE IF c.o = "int" THEN [conv_int(data) EXCEPT !.rule = "pod"]
    ELSE IF c.o = "float" THEN [conv_float(data) EXCEPT !.rule = "pod"]
    ELSE [conv_str(data) EXCEPT !.rule = "pod"]

\* _deserialize_interface: cls() and then its own deserialize hook.
_deserialize_interface(data, cls) == Ok(VBuilt(cls.o, "__deserialize__", data), "iface")

\* The ndarray family: only a list or tuple goes to the codec.
conv_ndarray(data) ==
    IF data.k \in {"list", "tuple"}
    THEN LET r == numpy_deserialize(data)
         IN IF r.ok THEN Ok(VBuilt("ndarray", "numpy_deserialize", data), "ndarray")
            ELSE [r EXCEPT !.rule = "ndarray"]
    ELSE Raise("DeserializeError", "cannot be converted to numpy.ndarray", "ndarray")

(***************************************************************************)
(* DeserializeError: a message and a path of labels.  DeserializeError(msg)*)
(* has an empty path, DeserializeError(msg, key) the path [key], and       *)
(* insert_first(key) prepends key.                                         *)
(***************************************************************************)
insert_first(err, key) == [err EXCEPT !.path = <<key>> \o @]

NewDeserializeError(msg, key, rule) ==
    [Raise("DeserializeError", msg, rule) EXCEPT !.path = <<key>>]

\* The two except clauses of _deserialize_any.
Catch(r, key) ==
    IF r.ok THEN r
    ELSE IF r.exc = "DeserializeError" THEN insert_first(r, key)
    ELSE NewDeserializeError(r.msg, key, r.rule)

StripNone_keep(ts) == ts

\* The Union branch: None is struck out of the alternatives.
StripNone(ts) == SelectSeq(ts, LAMBDA t : t # NoneType)

RECURSIVE _deserialize_any(_, _, _, _)
RECURSIVE IterLoop(_, _, _, _, _)
RECURSIVE ItemsLoop(_, _, _, _, _)
RECURSIVE KeysLoop(_, _, _, _, _, _)
RECURSIVE DataToDictLoop(_, _, _, _)

\* The loop of _deserialize_iterable, from element j on; acc is result.
IterLoop(elems, j, acc, cls, elem_hint) ==
    IF j > Len(elems) THEN Ok(SeqInst(cls, acc), "sequence")
    ELSE LET serialize_value == elems[j]
             attr_cls == IF elem_hint # NoHint THEN elem_hint ELSE TypeOf(serialize_value)
             r == _deserialize_any(serialize_value, attr_cls, IndexLabel(j - 1), NoHint)
         IN IF r.ok
            THEN IterLoop(elems, j + 1, Insert(acc, Len(acc), r.val), cls, elem_hint)
            ELSE [r EXCEPT !.rule = "sequence"]

\* Every MutableSequence has insert, so the hasattr test never fails.
_deserialize_iterable(data, cls, elem_hint) ==
    IF ~issubclass(cls, "sequence") THEN Raise("AssertionError", "", "sequence")
    ELSE IterLoop(IterElems(data), 1, <<>>, cls, elem_hint)

_deserialize_iterable_any(data, cls, elem_hint) ==
    IF compatible_iterable(data) THEN _deserialize_iterable(data, cls, elem_hint)
    ELSE _deserialize_iterable(VList(<<data>>), cls, elem_hint)

\* The loop of _deserialize_mapping_by_items, from pair j on.
ItemsLoop(items, j, acc, cls, elem_hint) ==
    IF j > Len(items) THEN Ok(MapInst(cls, acc, <<>>), "mapping")
    ELSE LET key == items[j].s
             serialize_value == items[j].e[1]
             attr_cls == IF elem_hint # NoHint THEN elem_hint ELSE TypeOf(serialize_value)
             r == _deserialize_any(serialize_value, attr_cls, key, NoHint)
         IN IF r.ok
            THEN ItemsLoop(items, j + 1, SetDefault(acc, key, r.val), cls, elem_hint)
            ELSE [r EXCEPT !.rule = "mapping"]

_deserialize_mapping_by_items(cls, items, elem_hint) ==
    IF ~issubclass(cls, "mapping") THEN Raise("AssertionError", "", "mapping")
    ELSE ItemsLoop(items, 1, <<>>, cls, elem_hint)

\* The loop of _deserialize_mapping_by_keys, from key j on: the value is read
\* with getattr and stored with setattr.
KeysLoop(data, keys, j, acc, cls, elem_hint) ==
    IF j > Len(keys) THEN Ok(MapInst(cls, <<>>, acc), "mapping")
    ELSE LET key == keys[j].s
             attrs == get_public_attributes(data)
             serialize_value == IF HasKey(attrs, key) THEN Lookup(attrs, key) ELSE VNone
             attr_cls == IF elem_hint # NoHint THEN elem_hint ELSE TypeOf(serialize_value)
             r == _deserialize_any(serialize_value, attr_cls, key, NoHint)
         IN IF ~r.ok THEN [r EXCEPT !.rule = "mapping"]
            ELSE IF NoInstanceDict(cls)
            THEN Raise("AttributeError", "object has no attribute", "mapping")
            ELSE KeysLoop(data, keys, j + 1, SetKey(acc, key, r.val), cls, elem_hint)

_deserialize_mapping_by_keys(data, cls, keys, elem_hint) ==
    IF ~issubclass(cls, "mapping") THEN Raise("AssertionError", "", "mapping")
    ELSE KeysLoop(data, keys, 1, <<>>, cls, elem_hint)

_deserialize_mapping(data, cls, elem_hint) ==
    IF ~issubclass(cls, "mapping") THEN Raise("AssertionError", "", "mapping")
    ELSE IF data.k \in {"dict", "itemsrc"}
    THEN _deserialize_mapping_by_items(cls, data.e, elem_hint)
    ELSE IF data.k = "keysrc"
    THEN _deserialize_mapping_by_keys(data, cls, data.e[1].e, elem_hint)
    ELSE _deserialize_mapping_by_items(cls, get_public_attributes(data), elem_hint)

_deserialize_mapping_any(data, cls, elem_hint) ==
    IF IsMapping(data) THEN _deserialize_mapping(data, cls, elem_hint)
    ELSE IF compatible_iterable(data)
    THEN _deserialize_mapping(
            VDict([j \in 1..Len(IterElems(data)) |->
                      VPair(IntToStr(j - 1), IterElems(data)[j])]),
            cls, elem_hint)
    ELSE _deserialize_mapping(VDict(<<VPair(FIRST_INDEX_KEY_STR, data)>>), cls, elem_hint)

\* The loop of _deserialize_data_to_dict, from attribute j on.
DataToDictLoop(attrs, j, acc, cls) ==
    IF j > Len(attrs) THEN Ok(VDict(acc), "dict")
    ELSE LET key == attrs[j].s
             serialize_value == attrs[j].e[1]
             hint == FieldHint(cls, key)
             origin == get_origin(hint)
             attr_cls == IF origin # NoHint THEN origin
                         ELSE IF hint # NoHint THEN hint
                         ELSE TypeOf(serialize_value)
             r == _deserialize_any(serialize_value, attr_cls, key, hint)
         IN IF r.ok THEN DataToDictLoop(attrs, j + 1, SetKey(acc, key, r.val), cls)
            ELSE r

_deserialize_data_to_dict(data, cls) ==
    DataToDictLoop(get_public_attributes(data), 1, <<>>, cls)

\* cls(**deserialize_datas): every required parameter, and nothing else.
_deserialize_dataclass(data, cls) ==
    LET d == _deserialize_data_to_dict(data, cls)
        params == required_init_parameters(cls)
    IN IF ~d.ok THEN d
       ELSE IF {d.val.e[j].s : j \in 1..Len(d.val.e)} # Range(params)
       THEN Raise("TypeError", "__init__() got unexpected or missing arguments", "init")
       ELSE Ok(VObj(cls.o, [j \in 1..Len(params) |->
                               VPair(params[j], Lookup(d.val.e, params[j]))]), "init")

_deserialize_object(data, cls) ==
    IF Len(required_init_parameters(cls)) > 0
    THEN Raise("TypeError", "__init__() missing required arguments", "object")
    ELSE LET d == _deserialize_data_to_dict(data, cls)
         IN IF ~d.ok THEN d
            ELSE IF Len(d.val.e) > 0 /\ NoInstanceDict(cls)
            THEN Raise("AttributeError", "object has no attribute", "object")
            ELSE IF cls.o = "dict" THEN Ok(MapInst(cls, <<>>, <<>>), "object")
            ELSE Ok(VObj(cls.o, d.val.e), "object")

WithRule(r, rule) == [r EXCEPT !.rule = rule]

\* Lines 234-263: dispatch on the origin of the hint.  "skip" means that no
\* branch returned.
ByHint(data, hint) ==
    LET type_origin == get_origin(hint)
        type_args == get_args(hint)
    IN IF type_origin = NoHint THEN Raise("skip", "", "")
       ELSE IF type_origin = UnionForm
       THEN LET union_types == StripNone(type_args)
            IN IF Len(union_types) >= 2
               THEN Raise("DeserializeError", "Two or more UNION types can not be deduced.",
                          "union")
               ELSE IF Len(union_types) # 1 THEN Raise("AssertionError", "", "union")
               ELSE _deserialize_any(data, union_types[1], NoneKey, union_types[1])
       ELSE IF issubclass(type_origin, "bytes") THEN conv_bytes(data, "bytes")
       ELSE IF issubclass(type_origin, "bytearray") THEN conv_bytes(data, "bytearray")
       ELSE IF issubclass(type_origin, "iface") THEN _deserialize_interface(data, type_origin)
       ELSE IF is_serializable_pod_cls(type_origin) THEN PodConv(data, type_origin)
       ELSE IF issubclass(type_origin, "mapping")
       THEN _deserialize_mapping_any(data, type_origin,
               IF Len(type_args) = 2 THEN type_args[2] ELSE NoHint)
       ELSE IF issubclass(type_origin, "sequence")
       THEN _deserialize_iterable_any(data, type_origin,
               IF Len(type_args) = 1 THEN type_args[1] ELSE NoHint)
       ELSE Raise("skip", "", "")

\* Lines 267-356: dispatch on the class.
ByClass(data, cls, key) ==
    IF is_none(cls) \/ cls = AnyT THEN Raise("skip", "", "")
    ELSE IF get_origin(cls) # NoHint THEN _deserialize_any(data, get_origin(cls), key, cls)
    ELSE IF issubclass(cls, "bytes") THEN conv_bytes(data, "bytes")
    ELSE IF issubclass(cls, "bytearray") THEN conv_bytes(data, "bytearray")
    ELSE IF issubclass(cls, "bool") THEN conv_bool(data)
    ELSE IF issubclass(cls, "int") THEN conv_int(data)
    ELSE IF issubclass(cls, "float") THEN conv_float(data)
    ELSE IF issubclass(cls, "str") THEN conv_str(data)
    ELSE IF issubclass(cls, "ndarray") THEN conv_ndarray(data)
    ELSE IF issubclass(cls, "datetime") THEN conv_date(data, "datetime")
    ELSE IF issubclass(cls, "date") THEN conv_date(data, "date")
    ELSE IF issubclass(cls, "time") THEN conv_time(data)
    ELSE IF issubclass(cls, "enum") THEN conv_enum(data, cls)
    ELSE IF issubclass(cls, "tuple") THEN conv_tuple(data, cls)
    ELSE IF issubclass(cls, "iface") THEN _deserialize_interface(data, cls)
    ELSE IF issubclass(cls, "mapping") THEN _deserialize_mapping_any(data, cls, NoHint)
    ELSE IF issubclass(cls, "sequence") THEN _deserialize_iterable_any(data, cls, NoHint)
    ELSE IF issubclass(cls, "dataclass")
    THEN WithRule(_deserialize_dataclass(data, cls), "dataclass")
    ELSE IF issubclass(cls, "protocol")
    THEN WithRule(IF IsIterableData(data) THEN _deserialize_iterable(data, ListT, NoHint)
                  ELSE _deserialize_object(data, ObjectT), "protocol")
    ELSE WithRule(IF Len(required_init_parameters(cls)) > 0
                  THEN _deserialize_dataclass(data, cls)
                  ELSE _deserialize_object(data, cls), "class")

\* Lines 360-371: dispatch on the data.
ByData(data) ==
    IF data.k \in {"bytes", "bool", "int", "float", "str"} THEN Ok(data, "data")
    ELSE IF IsMapping(data) THEN WithRule(_deserialize_mapping(data, DictT, NoHint), "data")
    ELSE IF IsIterableData(data)
    THEN WithRule(_deserialize_iterable(data, ListT, NoHint), "data")
    ELSE WithRule(_deserialize_object(data, DictT), "data")

_deserialize_any(data, cls, key, hint) ==
    IF data.k = "none" THEN Ok(VNone, "none")
    ELSE LET h == ByHint(data, hint)
         IN IF h.exc # "skip" THEN Catch(h, key)
            ELSE LET c == ByClass(data, cls, key)
                 IN IF c.exc # "skip" THEN Catch(c, key)
                    ELSE Catch(ByData(data), key)

_deserialize_root(data, cls, hint) == _deserialize_any(data, cls, DEFAULT_ROOT_KEY, hint)

\* The public entry point; NoHint stands for cls_or_hint=None.
deserialize(data, cls_or_hint) ==
    LET t == IF cls_or_hint = NoHint THEN TypeOf(data) ELSE cls_or_hint
        origin == get_origin(t)
    IN IF origin = NoHint THEN _deserialize_root(data, t, NoHint)
       ELSE IF origin = UnionForm
       THEN LET union_types == StripNone(get_args(cls_or_hint))
            IN IF Len(union_types) >= 2
               THEN Raise("DeserializeError", "Two or more UNION types can not be deduced.",
                          "union")
               ELSE IF Len(union_types) # 1 THEN Raise("AssertionError", "", "union")
               ELSE _deserialize_root(data, union_types[1], union_types[1])
       ELSE IF origin.o = "list" THEN _deserialize_root(data, ListT, cls_or_hint)
       ELSE IF origin.o = "dict" THEN _deserialize_root(data, DictT, cls_or_hint)
       ELSE Raise("TypeError", "Unsupported origin", "origin")

(***************************************************************************)
(* The arguments the calls are made with.                                  *)
(***************************************************************************)
Scalars ==
    {VNone, VInt(0), VInt(1), VInt(5), VStr("x"), VStr("1"), VStr("false"), VBool(TRUE),
     VFloat(1)}

Elems == {VNone, VInt(1), VStr("x"), VList(<<VInt(1)>>), VList(<<VInt(1), VStr("x")>>)}

Keys == {"a", "b"}

Lists == {VList(es) : es \in SeqsUpTo(Elems, MaxLen)}

\* Pairs with distinct keys (a dict, the attributes of an object).
PairSeqs ==
    {<<>>} \cup {<<VPair(k, v)>> : k \in Keys, v \in Elems}
           \cup {<<VPair("a", v), VPair("b", w)>> : v \in Elems, w \in {VInt(1), VStr("x")}}

\* Pairs in which a key may repeat.
LeafElems == {VInt(0), VInt(1), VStr("x")}
DupPairSeqs ==
    {[j \in 1..Len(ks) |-> VPair(ks[j], vs[j])] :
        <<ks, vs>> \in {<<k, v>> \in SeqsUpTo(Keys, MaxLen) \X SeqsUpTo(LeafElems, MaxLen) :
                           Len(k) = Len(v)}}

Dicts    == {VDict(ps) : ps \in PairSeqs}
Objs     == {VObj("Plain", ps) : ps \in PairSeqs}
ItemSrcs == {VItemSrc(ps) : ps \in DupPairSeqs}
KeySrcs  ==
    {VKeySrc([j \in 1..Len(ks) |-> VStr(ks[j])], attrs, reg) :
        ks \in SeqsUpTo(Keys, MaxLen),
        attrs \in {<<>>, <<VPair("a", VInt(1))>>, <<VPair("a", VStr("x")), VPair("b", VInt(0))>>},
        reg \in BOOLEAN}

DataSet == Scalars \cup Lists \cup Dicts \cup Objs \cup ItemSrcs \cup KeySrcs

ConcreteClasses ==
    {Class(n) : n \in {"bytes", "bytearray", "bool", "int", "float", "str", "ndarray",
                       "datetime", "date", "time", "Color", "IntColor", "StrColor",
                       "tuple", "Point", "SelfObj", "SelfStr", "SelfTuple", "SelfMap",
                       "SelfSeq", "SelfRec", "dict", "MyMap", "MapSeq", "list", "MySeq",
                       "RecSeq", "RecMap", "RecProto", "Proto", "Plain", "PlainReq"}}

FieldHints ==
    {IntT, OptionalOf(IntT), UnionOf(<<IntT, StrT>>), ListOf(IntT), ListOf(BoolT),
     ListOf(OptionalOf(IntT)), ListOf(ListOf(IntT)), TupleOf(IntT)}

RecordClasses ==
    {DataClass("Rec", <<h>>) : h \in FieldHints}
        \cup {DataClass("Rec", <<ListOf(IntT), IntT>>), DataClass("Rec", <<>>)}

GenericHints ==
    {OptionalOf(IntT), OptionalOf(ListOf(IntT)), UnionOf(<<IntT, StrT>>),
     UnionOf(<<IntT, StrT, NoneType>>),
     ListOf(IntT), ListOf(OptionalOf(IntT)), ListOf(UnionOf(<<IntT, StrT>>)),
     ListOf(ListOf(IntT)), ListOf(AnyT), Generic("list", <<>>),
     DictOf(StrT, IntT), DictOf(StrT, ListOf(IntT)), DictOf(StrT, OptionalOf(IntT)),
     TupleOf(IntT), Generic("set", <<IntT>>)}

HintSet == ConcreteClasses \cup RecordClasses \cup GenericHints \cup {AnyT}

\* ndarrays: a row-major block whose bytes are 1, 2, 3, ..., and views on it.
Ramp(n) == [j \in 1..n |-> j]
Base1(n, dtype) == NdArray(<<n>>, <<ItemSize(dtype)>>, 0, Ramp(n), dtype)
Base2(r, c, dtype) ==
    NdArray(<<r, c>>, <<c * ItemSize(dtype), ItemSize(dtype)>>, 0, Ramp(r * c), dtype)

Reversed(s) == [k \in 1..Len(s) |-> s[Len(s) + 1 - k]]
\* a.T
Transpose(a) == [a EXCEPT !.shape = Reversed(@), !.strides = Reversed(@)]
\* a[::2]
Step2(a) == [a EXCEPT !.shape[1] = (@ + 1) \div 2, !.strides[1] = 2 * @]
\* a[:, ::2]
ColStep2(a) ==
    IF Len(a.shape) < 2 THEN a
    ELSE [a EXCEPT !.shape[2] = (@ + 1) \div 2, !.strides[2] = 2 * @]
\* a[1:]
Tail1(a) ==
    IF a.shape[1] = 0 THEN a
    ELSE [a EXCEPT !.shape[1] = @ - 1, !.offset = @ + a.strides[1]]
\* a[::-1]
Flip(a) ==
    IF a.shape[1] = 0 THEN a
    ELSE [a EXCEPT !.offset = @ + (a.shape[1] - 1) * a.strides[1], !.strides[1] = -@]

BaseArrays ==
    {Base1(n, dt) : n \in 0..MaxDim, dt \in DTypeRegistry}
        \cup {Base2(r, c, dt) : r \in 1..MaxDim, c \in 1..MaxDim, dt \in DTypeRegistry}

Arrays ==
    BaseArrays \cup {Transpose(a) : a \in BaseArrays} \cup {Step2(a) : a \in BaseArrays}
        \cup {ColStep2(a) : a \in BaseArrays} \cup {Tail1(a) : a \in BaseArrays}
        \cup {Flip(a) : a \in BaseArrays}

Platforms == {"linux", "darwin"}

\* What a caller may put in a raw record.
RawElems ==
    {VInt(123), VNone, VStr("int8"), VStr("f4x"), VStr(""), VBytes(VInts(<<1, 2>>)),
     VList(VInts(<<2>>)), VList(VInts(<<1>>))}

RawSeqs ==
    [1..4 -> RawElems] \cup UNION {[1..n -> {VList(VInts(<<1>>))}] : n \in {0, 1, 3, 5}}

RawProtos == {VList(es) : es \in RawSeqs} \cup {VTuple("tuple", es) : es \in RawSeqs}

(***************************************************************************)
(* The calls.                                                              *)
(***************************************************************************)
Init ==
    /\ op = "init"
    /\ arg = [data |-> VNone, hint |-> NoHint]
    /\ out = Ok(VNone, "init")

\* deserialize(data, cls_or_hint)
Deserialize ==
    /\ op = "init"
    /\ \E data \in DataSet, hint \in HintSet :
        /\ op' = "deserialize"
        /\ arg' = [data |-> data, hint |-> hint]
        /\ out' = deserialize(data, hint)

\* deserialize(data)
DeserializeByData ==
    /\ op = "init"
    /\ \E data \in DataSet :
        /\ op' = "deserialize"
        /\ arg' = [data |-> data, hint |-> NoHint]
        /\ out' = deserialize(data, NoHint)

\* numpy_deserialize(numpy_serialize(array))
NumpyRoundTrip ==
    /\ op = "init"
    /\ \E array \in Arrays, platform \in Platforms :
        /\ op' = "roundtrip"
        /\ arg' = [array |-> array, platform |-> platform]
        /\ out' = LET proto == numpy_serialize(platform, array)
                  IN IF proto.ok THEN numpy_deserialize(proto.val) ELSE proto

\* numpy_deserialize(proto) of a raw list or tuple
NumpyDeserialize ==
    /\ op = "init"
    /\ \E proto \in RawProtos :
        /\ op' = "numpy_deserialize"
        /\ arg' = [proto |-> proto]
        /\ out' = numpy_deserialize(proto)

Next == Deserialize \/ DeserializeByData \/ NumpyRoundTrip \/ NumpyDeserialize

Spec == Init /\ [][Next]_vars

(***************************************************************************)
(* Properties.                                                             *)
(***************************************************************************)
IsCall == op = "deserialize"

\* A Union hint, and what is left of it without None.
IsUnion(h)     == h.g /\ h.o = "Union"
Alternatives(h) == StripNone(h.a)
Ambiguous(h)   == IsUnion(h) /\ Len(Alternatives(h)) >= 2
Optionalish(h) == IsUnion(h) /\ Len(Alternatives(h)) = 1

UnionMessage == "Two or more UNION types can not be deduced."

\* C1: deserialize(None, T) returns None and raises nothing, whatever the
\* target type or hint T.
C1_AbsenceYieldsAbsence ==
    (IsCall /\ arg.data.k = "none") => (out.ok /\ out.val.k = "none")

\* C2: numpy_deserialize(numpy_serialize(a)) succeeds and yields an array of
\* the same shape, dtype name and strides holding the same element at every
\* index, for every ndarray a, contiguous or not.
C2_RoundTrip ==
    op = "roundtrip" =>
        /\ out.ok
        /\ out.val.shape = arg.array.shape
        /\ out.val.dtype = arg.array.dtype
        /\ out.val.strides = arg.array.strides
        /\ \A idx \in Indices(arg.array.shape) :
              Element(out.val, idx) = Element(arg.array, idx)

\* The values a hint meets at its nested Union positions: the elements of a
\* list under List[U], the attribute a under a record class declaring a: U.
ValuesAtUnion(data, hint) ==
    IF hint.g /\ hint.o = "list" /\ Len(hint.a) = 1 /\ IsUnion(hint.a[1]) /\ data.k = "list"
    THEN Range(data.e)
    ELSE IF ~hint.g /\ hint.o = "Rec" /\ Len(hint.f) = 1 /\ IsUnion(hint.f[1])
            /\ data.k \in {"obj", "dict"} /\ HasKey(data.e, "a")
    THEN {Lookup(data.e, "a")}
    ELSE {}
UnionAt(hint) ==
    IF hint.g /\ hint.o = "list" /\ Len(hint.a) = 1 THEN hint.a[1]
    ELSE IF ~hint.g /\ hint.o = "Rec" /\ Len(hint.f) = 1 THEN hint.f[1]
    ELSE NoHint

FailsAsAmbiguous ==
    ~out.ok /\ out.exc = "DeserializeError" /\ out.msg = UnionMessage

\* C3 as stated: a Union hint with two or more non-None alternatives makes the
\* call fail with the DeserializeError of ambiguous unions, at the public
\* entry and at every nested position, and no value is returned.
C3_AmbiguousUnionAlwaysFails ==
    IsCall =>
        /\ Ambiguous(arg.hint) => FailsAsAmbiguous
        /\ (Ambiguous(UnionAt(arg.hint)) /\ ValuesAtUnion(arg.data, arg.hint) # {})
              => FailsAsAmbiguous

\* C3 as amended: None is struck out of a Union hint; with one alternative
\* left the data is deserialized against it (5 against Optional[int] is 5,
\* None is None); with two or more left the call fails with the
\* DeserializeError of ambiguous unions whenever the data at that position is
\* not None.
C3_UnionStripping ==
    IsCall =>
        /\ (Optionalish(arg.hint) /\ arg.hint # NoHint)
              => out = deserialize(arg.data, Alternatives(arg.hint)[1])
        /\ (arg.hint = OptionalOf(IntT) /\ arg.data = VInt(5)) => (out.ok /\ out.val = VInt(5))
        /\ (arg.hint = OptionalOf(IntT) /\ arg.data.k = "none")
              => (out.ok /\ out.val.k = "none")
        /\ (Ambiguous(arg.hint) /\ arg.data.k # "none") => FailsAsAmbiguous
        /\ (Ambiguous(UnionAt(arg.hint))
              /\ \E v \in ValuesAtUnion(arg.data, arg.hint) : v.k # "none")
              => FailsAsAmbiguous
        /\ (arg.hint = ListOf(OptionalOf(IntT)) /\ arg.data.k = "list")
              => LET r == deserialize(arg.data, ListOf(IntT))
                 IN out.ok = r.ok /\ (out.ok => out.val = r.val)

C3_Witness ==
    /\ IsCall
    /\ arg.hint = DataClass("Rec", <<UnionOf(<<IntT, StrT>>)>>)
    /\ arg.data = VObj("Plain", <<VPair("a", VInt(1))>>)
    /\ FailsAsAmbiguous

\* Whether a value converts to a type at a nested position.
Converts(v, t) == _deserialize_any(v, t, NoneKey, NoHint).ok

FirstBad(es, t) ==
    IF \E j \in 1..Len(es) : ~Converts(es[j], t)
    THEN CHOOSE j \in 1..Len(es) :
            ~Converts(es[j], t) /\ \A m \in 1..(j - 1) : Converts(es[m], t)
    ELSE 0

\* C4: deserializing into a record class whose field a is List[T], with the
\* element at index i of a not convertible to T, fails with a
\* DeserializeError whose path is exactly root, "a", "[i]".
C4_PathAccuracy ==
    (/\ IsCall
     /\ ~arg.hint.g /\ arg.hint.o = "Rec" /\ Len(arg.hint.f) = 1
     /\ arg.hint.f[1].g /\ arg.hint.f[1].o = "list"
     /\ ~(arg.hint.f[1].a[1].g /\ arg.hint.f[1].a[1].o = "list")
     /\ arg.data.k \in {"obj", "dict"} /\ HasKey(arg.data.e, "a")
     /\ Lookup(arg.data.e, "a").k = "list"
     /\ FirstBad(Lookup(arg.data.e, "a").e, arg.hint.f[1].a[1]) > 0)
    => /\ ~out.ok
       /\ out.exc = "DeserializeError"
       /\ out.path =
            <<DEFAULT_ROOT_KEY, "a",
              IndexLabel(FirstBad(Lookup(arg.data.e, "a").e, arg.hint.f[1].a[1]) - 1)>>

\* The order of the families.
Priority ==
    <<"bytes", "bytearray", "bool", "int", "float", "str", "ndarray", "datetime", "date",
      "time", "enum", "tuple", "iface", "mapping", "sequence", "dataclass", "protocol">>

FirstFamily(c) ==
    IF \E j \in 1..Len(Priority) : Priority[j] \in Families(c)
    THEN Priority[CHOOSE j \in 1..Len(Priority) :
                     /\ Priority[j] \in Families(c)
                     /\ \A m \in 1..(j - 1) : Priority[m] \notin Families(c)]
    ELSE "class"

\* Targets built by the mapping rule and by the sequence rule, and the hint
\* of their values and elements.
IsMappingTarget(h)  == FirstFamily(Class(h.o)) = "mapping"
IsSequenceTarget(h) == FirstFamily(Class(h.o)) = "sequence"
ValueHint(h) == IF h.g /\ Len(h.a) = 2 THEN h.a[2] ELSE NoHint
ElemHint(h)  == IF h.g /\ Len(h.a) = 1 THEN h.a[1] ELSE NoHint

\* The deserialization of one element of a container.
Deserialized(v, elem_hint) ==
    _deserialize_any(v, IF elem_hint # NoHint THEN elem_hint ELSE TypeOf(v), NoneKey,
                     NoHint).val

FirstIndex(ps, key) == CHOOSE j \in 1..Len(ps) : ps[j].s = key /\ \A m \in 1..(j - 1) : ps[m].s # key

\* The keys a keys-shaped source enumerates, and the value it holds for one.
KeysOf(src)      == {src.e[1].e[j].s : j \in 1..Len(src.e[1].e)}
ValueOf(src, key) == IF HasKey(src.e[2].e, key) THEN Lookup(src.e[2].e, key) ELSE VNone

ItemsMerge ==
    (arg.data.k \in {"dict", "itemsrc"} /\ out.ok) =>
        \A j \in 1..Len(arg.data.e) :
            LET key == arg.data.e[j].s
            IN /\ HasKey(Entries(out.val), key)
               /\ Lookup(Entries(out.val), key) =
                    Deserialized(arg.data.e[FirstIndex(arg.data.e, key)].e[1],
                                 ValueHint(arg.hint))

KeysMerge ==
    (arg.data.k = "keysrc" /\ arg.data.i = 1 /\ out.ok) =>
        \A key \in KeysOf(arg.data) :
            /\ HasKey(Entries(out.val), key)
            /\ Lookup(Entries(out.val), key) =
                 Deserialized(ValueOf(arg.data, key), ValueHint(arg.hint))

\* C5: a mapping built from item pairs holds, for a repeated key, the value
\* seen first; one built from a key enumeration holds the value seen last;
\* either way the result maps every enumerated key to its deserialized value.
C5_MappingMerge ==
    (IsCall /\ IsMappingTarget(arg.hint)) => (ItemsMerge /\ KeysMerge)

\* C6: a concrete target type is converted by the rule of the first family
\* it belongs to, in the order byte-buffer, boolean, integer, float, text,
\* array-buffer, date-time, date, time, enumeration, tuple, self-deserializing
\* interface, mapping, sequence, record type, protocol, plain object; so bool
\* never takes the integer rule ("false" is False, 1 is True), datetime never
\* takes the date rule, and a self-deserializing mapping or sequence class is
\* handled by its own hook.
C6_Priority ==
    (IsCall /\ arg.hint \in ConcreteClasses \cup RecordClasses /\ arg.data.k # "none") =>
        /\ out.rule = FirstFamily(arg.hint)
        /\ (arg.hint = BoolT /\ arg.data = VStr("false")) => (out.ok /\ out.val = VBool(FALSE))
        /\ (arg.hint = BoolT /\ arg.data = VInt(1)) => (out.ok /\ out.val = VBool(TRUE))
        /\ (arg.hint = BoolT /\ out.ok) => out.val.k = "bool"
        /\ arg.hint = Class("datetime") => out.rule = "datetime"
        /\ arg.hint \in {Class("SelfMap"), Class("SelfSeq")} =>
              out = Ok(VBuilt(arg.hint.o, "__deserialize__", arg.data), "iface")

C6_Witness ==
    /\ IsCall
    /\ arg.hint = BoolT
    /\ arg.data = VStr("false")
    /\ out = Ok(VBool(FALSE), "bool")

\* C7: an iterable source of n elements gives a sequence of exactly n
\* elements, the i-th being the deserialization of the source's i-th; a source
\* that is not iterable gives the one-element sequence of its deserialization.
C7_SequenceOrder ==
    (IsCall /\ IsSequenceTarget(arg.hint) /\ arg.data.k # "none" /\ out.ok) =>
        IF compatible_iterable(arg.data)
        THEN /\ Len(out.val.e) = Len(IterElems(arg.data))
             /\ \A j \in 1..Len(IterElems(arg.data)) :
                   out.val.e[j] = Deserialized(IterElems(arg.data)[j], ElemHint(arg.hint))
        ELSE out.val.e = <<Deserialized(arg.data, ElemHint(arg.hint))>>

C7_Witness ==
    /\ IsCall
    /\ arg.hint = ListT
    /\ arg.data = VList(<<VStr("x"), VInt(1)>>)
    /\ out.ok
    /\ out.val = VList(<<VStr("x"), VInt(1)>>)

\* The positional checks of a raw record.
Offends(es, p) ==
    CASE p = 1 -> ~IsIterable(es[1])
      [] p = 2 -> es[2].k # "str"
      [] p = 3 -> es[3].k # "bytes"
      [] p = 4 -> ~IsIterable(es[4])

PositionMessage ==
    <<"The first element must be Iterable", "The second element must be str",
      "The third element must be bytes-like", "The forth element must be Iterable">>

\* C8: a raw list or tuple is validated before any array is built: a length
\* other than 4 is a ValueError; else the lowest-numbered position that fails
\* its check (0 iterable, 1 str, 2 bytes-like, 3 iterable) is named in a
\* ValueError; only a record passing all four reaches dtype resolution.
C8_MalformedRecord ==
    op = "numpy_deserialize" =>
        LET es == arg.proto.e
        IN IF Len(es) # 4
           THEN ~out.ok /\ out.exc = "ValueError" /\ out.msg = "There must be 4 elements"
           ELSE IF \E p \in 1..4 : Offends(es, p)
           THEN LET low == CHOOSE p \in 1..4 :
                              Offends(es, p) /\ \A q \in 1..(p - 1) : ~Offends(es, q)
                IN /\ ~out.ok /\ out.exc = "ValueError" /\ out.rule = "validate"
                   /\ out.msg = PositionMessage[low]
           ELSE out.rule \in {"dtype", "ndarray"}

C8_Witness ==
    /\ op = "numpy_deserialize"
    /\ arg.proto = VTuple("tuple", <<VInt(123), VStr("int8"), VBytes(VInts(<<1, 2>>)),
                                     VList(VInts(<<2>>))>>)
    /\ out.msg = "The first element must be Iterable"

\* C9: every failure of deserialize reaches the caller as a DeserializeError
\* whose path begins with the root label.
C9_ErrorWrapping ==
    (IsCall /\ ~out.ok) =>
        /\ out.exc = "DeserializeError"
        /\ Len(out.path) >= 1
        /\ out.path[1] = DEFAULT_ROOT_KEY

\* The labels from a value down to the first value below it that fails: one
\* per container level.
RECURSIVE LeafPath(_, _)
LeafPath(data, hint) ==
    IF Optionalish(hint) THEN LeafPath(data, Alternatives(hint)[1])
    ELSE IF hint.g /\ hint.o = "list" /\ Len(hint.a) = 1 /\ data.k = "list"
    THEN LET j == FirstBad(data.e, hint.a[1])
         IN IF j = 0 THEN <<>>
            ELSE <<IndexLabel(j - 1)>> \o LeafPath(data.e[j], hint.a[1])
    ELSE IF hint.g /\ hint.o = "dict" /\ Len(hint.a) = 2 /\ data.k = "dict"
    THEN LET vs == [j \in 1..Len(data.e) |-> data.e[j].e[1]]
             j == FirstBad(vs, hint.a[2])
         IN IF j = 0 THEN <<>>
            ELSE <<data.e[j].s>> \o LeafPath(vs[j], hint.a[2])
    ELSE <<>>

Nests(hint) ==
    \/ hint.g /\ hint.o \in {"list", "dict"}
    \/ Optionalish(hint) /\ Alternatives(hint)[1].g

\* The source has the shape the hint describes, at every level.
RECURSIVE WellShaped(_, _)
WellShaped(data, hint) ==
    IF data.k = "none" THEN TRUE
    ELSE IF Optionalish(hint) THEN WellShaped(data, Alternatives(hint)[1])
    ELSE IF hint.g /\ hint.o = "list" /\ Len(hint.a) = 1
    THEN data.k = "list" /\ \A j \in 1..Len(data.e) : WellShaped(data.e[j], hint.a[1])
    ELSE IF hint.g /\ hint.o = "dict" /\ Len(hint.a) = 2
    THEN data.k = "dict" /\ \A j \in 1..Len(data.e) : WellShaped(data.e[j].e[1], hint.a[2])
    ELSE ~hint.g /\ data.k \in {"int", "str", "bool", "float"}

\* C10: the path of a failing call is the root label and then one label for
\* each container level down to the failing value, in that order, none twice
\* and none empty, also under List[List[int]], Dict[str, List[int]] and
\* Optional[List[int]].
C10_OneLabelPerLevel ==
    (IsCall /\ ~out.ok /\ Nests(arg.hint) /\ WellShaped(arg.data, arg.hint))
    => out.path = <<DEFAULT_ROOT_KEY>> \o LeafPath(arg.data, arg.hint)

====
